---- MODULE Spec2Model ----
(***************************************************************************)
(* Model of flexx/ui/_widget.py: the widget hierarchy (set_parent,         *)
(* dispose, construction, container mounting) and the virtual-DOM          *)
(* reconciler (__render_resolve, __render, _render_dom).                   *)
(*                                                                         *)
(* Spec       the widget hierarchy and the container mount reaction.       *)
(* SpecRender the reconciler applied to a small real-node tree.            *)
(* SpecInput  the mouse capture of one widget, its mounting and disposal.  *)
(***************************************************************************)
EXTENDS Integers, Sequences, FiniteSets, TLC

\* ------------------------------------------------------------------ bounds
NW == 3
MaxPos == 2
MaxTimers == 1
NM == 2
MaxLen == 3
MaxNodes == 13
MaxMode == 3
MaxHoles == 1

\* Python's None (the default of the parent property).
None == 0

Widgets == 1..NW
WidgetOrNone == Widgets \cup {None}

\* A "pos" argument of set_parent: None, an integer, or a value that is
\* neither >= 0 nor < 0 (NaN on the JavaScript side).
PosNone == [kind |-> "none", val |-> 0]
PosInt(k) == [kind |-> "int", val |-> k]
PosNaN == [kind |-> "nan", val |-> 0]
PosArgs == {PosNone} \cup {PosInt(k) : k \in (0 - MaxPos)..MaxPos}

\* The same with a pos that is no valid number.
PosAny == PosArgs \cup {PosNaN}

\* An argument of set_parent that is neither a widget nor None.
NotAWidget == 0 - 1

\* Ids a container property can hold: '' (none), 'body', or the id of
\* some other element of the document.
ContainerIds == {"", "body", "c1"}
OtherIds == ContainerIds \ {"", "body"}

VARIABLES
    st,                 \* widget -> "new" (not constructed) | "live" | "disposed"
    parent,             \* widget -> its parent property
    children,           \* widget -> its children property (a sequence)
    container,          \* widget -> its container property
    need_main_widget,   \* window.flexx.need_main_widget
    ctPending,          \* widgets whose 'container' reaction is due
    timers,             \* widget -> number of pending setTimeout retries
    mainw,              \* widgets whose outernode has class flx-main-widget
    attached,           \* widget -> id of the element the mount reaction appended its outernode to
    elems,              \* ids of the elements present in the document
    stack,              \* the call stack of dispose(): frames [w, kids, i]
    log,                \* ordering log of dispose(): "detach" and "done" events
    hist                \* the last set_parent calls on one widget (at most two), oldest first

hvars == <<st, parent, children, container, need_main_widget, ctPending,
           timers, mainw, attached, elems, stack, log, hist>>

VARIABLES
    dom,                \* the real nodes: [tag, attrs, kids, html], each a function of the node
    pre,                \* history: dom before the last pass
    op,                 \* history: the last pass, [kind, v, n]
    res,                \* the outcome of the last pass, [node, err]
    phase               \* "start", "once" (one pass made), "twice"

rvars == <<dom, pre, op, res, phase>>

VARIABLES
    capture_mouse,      \* the capture_mouse property of MouseWidget
    capture_flag,       \* its _capture_flag: 0, 1 (down, no capture), 2 (captured), -1 (capture end)
    doc_listeners,      \* mmove_outside and mup_outside are installed on window.document
    button,             \* a mouse button is held down
    second,             \* a second mouse button is held down as well
    emitted,            \* the mouse events that the last step emitted, in order
    mlast,              \* history: the input of the last step, [ev, inside, flag, prev]
    mode_since          \* history: capture_mouse at the last press-down on the widget, if not set since

mvars == <<capture_mouse, capture_flag, doc_listeners, button, second, emitted,
           mlast, mode_since>>

VARIABLES
    sp,                 \* history: the last set_parent call, [w, old, arg, pos, err, muts]
    given,              \* the input of the last query or event builder
    returned            \* what that call returned

evars == <<sp, given, returned>>

\* ------------------------------------------------------- sequence helpers
Range(s) == {s[i] : i \in 1..Len(s)}

Count(s, x) == Cardinality({i \in 1..Len(s) : s[i] = x})

\* "while self in children: children.remove(self)"
RemoveAll(s, x) == SelectSeq(s, LAMBDA e : e # x)

\* list.insert(i, x): a negative index counts from the end, and the index
\* is clamped to the list.
ListInsert(s, i, x) ==
    LET raw == IF i >= 0 THEN i ELSE Len(s) + i
        k == IF raw < 0 THEN 0 ELSE IF raw > Len(s) THEN Len(s) ELSE raw
    IN  SubSeq(s, 1, k) \o <<x>> \o SubSeq(s, k + 1, Len(s))

\* list.pop(-1)
ListPop(s) == SubSeq(s, 1, Len(s) - 1)

\* ------------------------------------------------------------- set_parent
EarlyExitNever(old, new, pos) == FALSE

\* Early exit of set_parent: same parent and no position asked for.
EarlyExit(old, new, pos) == new = old /\ pos.kind = "none"

\* "Remove ourselves": the local list 'children' after the first block.
RemovedFromOldKept(ch, w, old) == ch[old]

RemovedFromOld(ch, w, old) == RemoveAll(ch[old], w)

\* The children of every widget after the "Remove ourselves" block.
AfterRemoveSkipped(ch, w, old, new) == ch

AfterRemove(ch, w, old, new) ==
    IF old # None /\ old # new
    THEN [ch EXCEPT ![old] = RemovedFromOld(ch, w, old)]
    ELSE ch

PlaceAppend(c, w, pos) == Append(c, w)

\* The placement of w in the list, by the kind of pos.
Place(c, w, pos) ==
    IF pos.kind = "none" THEN Append(c, w)
    ELSE IF pos.kind = "int" /\ pos.val >= 0 THEN ListInsert(c, pos.val, w)
    ELSE IF pos.kind = "int" /\ pos.val < 0
         THEN ListPop(ListInsert(Append(c, None), pos.val, w))
    ELSE Append(c, None)

\* "Insert ourselves": the children of every widget at the end of set_parent.
AfterInsert(ch, w, old, new, pos) ==
    LET ch1 == AfterRemove(ch, w, old, new)
        start == IF old # new THEN ch1[new] ELSE RemovedFromOld(ch, w, old)
    IN  IF new # None
        THEN [ch1 EXCEPT ![new] = Place(RemoveAll(start, w), w, pos)]
        ELSE ch1

\* "new_parent is None or isinstance(new_parent, Widget)"
IsWidgetOrNone(x) == x \in WidgetOrNone

\* The ValueError of set_parent, raised before any mutation.
RejectedLate(par, ch, w, new) ==
    [parent |-> [par EXCEPT ![w] = new], children |-> ch, err |-> "ValueError"]

Rejected(par, ch, w, new) ==
    [parent |-> par, children |-> ch, err |-> "ValueError"]

\* The parent and children properties after set_parent(w, new, pos), and
\* the error raised.
SetParentResult(par, ch, w, new, pos) ==
    IF EarlyExit(par[w], new, pos)
    THEN [parent |-> par, children |-> ch, err |-> ""]
    ELSE IF ~IsWidgetOrNone(new)
    THEN Rejected(par, ch, w, new)
    ELSE [parent |-> [par EXCEPT ![w] = new],
          children |-> AfterInsert(ch, w, par[w], new, pos),
          err |-> ""]

\* The mutations that set_parent(w, new, pos) issues, in order, each as
\* the property and the widget it is a property of.
Mutations(par, w, new, pos) ==
    IF EarlyExit(par[w], new, pos) \/ ~IsWidgetOrNone(new)
    THEN <<>>
    ELSE <<(<<"parent", w>>)>>
         \o (IF par[w] # None /\ par[w] # new
             THEN <<(<<"children", par[w]>>)>> ELSE <<>>)
         \o (IF new # None THEN <<(<<"children", new>>)>> ELSE <<>>)

\* History: the record of a set_parent call (the widget, its parent
\* before the call, the parent asked for). hist keeps the last call, and
\* the call before it when that was a call on the same widget.
Call(w, old, new) == [w |-> w, old |-> old, new |-> new]

Remember(h, c) ==
    IF h # <<>> /\ h[Len(h)].w = c.w THEN <<h[Len(h)], c>> ELSE <<c>>

Tracked(w, new) == hist' = Remember(hist, Call(w, parent[w], new))

Live == {w \in Widgets : st[w] = "live"}

Idle == stack = <<>>

\* w.set_parent(new, pos), the action.
SetParent(w, new, pos) ==
    /\ Idle
    /\ w \in Live
    /\ new \in Live \cup {None}
    /\ LET r == SetParentResult(parent, children, w, new, pos)
       IN  /\ parent' = r.parent
           /\ children' = r.children
    /\ UNCHANGED <<st, container, need_main_widget, ctPending, timers, mainw,
                   attached, elems, stack, log>>

\* The None entries of all children lists.
Holes(ch) == {<<p, i>> \in Widgets \X (1..(NW + MaxHoles)) :
                 i <= Len(ch[p]) /\ ch[p][i] = None}

\* History: the record of a set_parent call with its arguments as given
\* and the parent before it.
NoCall ==
    [w |-> None, old |-> None, arg |-> None, pos |-> PosNone, err |-> "",
     muts |-> <<>>]

\* w.set_parent(arg, pos) with any argument and any pos, the action.
SetParentAny(w, arg, pos) ==
    /\ Idle
    /\ w \in Live
    /\ arg \in Live \cup {None, NotAWidget}
    /\ pos = PosNaN => Cardinality(Holes(children)) < MaxHoles
    /\ LET r == SetParentResult(parent, children, w, arg, pos)
       IN  /\ parent' = r.parent
           /\ children' = r.children
           /\ sp' = [w |-> w, old |-> parent[w], arg |-> arg, pos |-> pos,
                     err |-> r.err,
                     muts |-> Mutations(parent, w, arg, pos)]
    /\ UNCHANGED <<st, container, need_main_widget, ctPending, timers, mainw,
                   attached, elems, stack, log>>

\* ---------------------------------------------------------- set_container
\* The setter of the container property: a mutation to another value
\* makes the 'container' reaction due.
SetContainerResult(ct, pend, w, id) ==
    [container |-> [ct EXCEPT ![w] = id],
     ctPending |-> IF ct[w] # id THEN pend \cup {w} ELSE pend]

SetContainer(w, id) ==
    /\ Idle
    /\ w \in Live
    /\ LET r == SetContainerResult(container, ctPending, w, id)
       IN  /\ container' = r.container
           /\ ctPending' = r.ctPending
    /\ UNCHANGED <<st, parent, children, need_main_widget, timers, mainw,
                   attached, elems, stack, log>>

\* ------------------------------------------------------------ constructor
\* Whether the constructor makes this widget the main widget.
TakesMainRole(p, id, need) == p = None /\ id = "" /\ need

\* Widget(parent=p, container=id): p is the parent resolved from the
\* argument or from the active components.
Construct(w, p, id) ==
    /\ Idle
    /\ st[w] = "new"
    /\ p \in Live \cup {None}
    /\ st' = [st EXCEPT ![w] = "live"]
    /\ LET r0 == SetContainerResult(container, ctPending, w, id)
           r1 == IF TakesMainRole(p, id, need_main_widget)
                 THEN SetContainerResult(r0.container, r0.ctPending, w, "body")
                 ELSE r0
           r2 == IF p # None
                 THEN SetParentResult(parent, children, w, p, PosNone)
                 ELSE [parent |-> parent, children |-> children]
       IN  /\ container' = r1.container
           /\ ctPending' = r1.ctPending
           /\ parent' = r2.parent
           /\ children' = r2.children
    /\ need_main_widget' = (need_main_widget /\ ~TakesMainRole(p, id, need_main_widget))
    /\ UNCHANGED <<timers, mainw, attached, elems, stack, log>>

\* ------------------------------------------------- container mount reaction
\* The same without the retry.
MountResultNoRetry(w, id, cleared, att, tm, el) ==
    IF id = "" THEN [mainw |-> cleared, attached |-> att, timers |-> tm]
    ELSE IF id = "body"
    THEN [mainw |-> cleared \cup {w},
          attached |-> [att EXCEPT ![w] = "body"],
          timers |-> tm]
    ELSE IF id \in el
    THEN [mainw |-> cleared,
          attached |-> [att EXCEPT ![w] = id],
          timers |-> tm]
    ELSE [mainw |-> cleared, attached |-> att, timers |-> tm]

\* The body of __container_changed for widget w, as the new values of the
\* flx-main-widget marks, the mount points and the pending retries.
MountResult(w, id, cleared, att, tm, el) ==
    IF id = "" THEN [mainw |-> cleared, attached |-> att, timers |-> tm]
    ELSE IF id = "body"
    THEN [mainw |-> cleared \cup {w},
          attached |-> [att EXCEPT ![w] = "body"],
          timers |-> tm]
    ELSE IF id \in el
    THEN [mainw |-> cleared,
          attached |-> [att EXCEPT ![w] = id],
          timers |-> tm]
    ELSE [mainw |-> cleared,
          attached |-> att,
          timers |-> [tm EXCEPT ![w] = @ + 1]]

ContainerChangedAnyParent(w, par, ct, mw, att, tm, el) ==
    MountResult(w, ct[w], mw \ {w}, att, tm, el)

ContainerChangedResult(w, par, ct, mw, att, tm, el) ==
    IF par[w] # None
    THEN [mainw |-> mw \ {w}, attached |-> att, timers |-> tm]
    ELSE MountResult(w, ct[w], mw \ {w}, att, tm, el)

\* The reaction on 'container', run by the event loop.
ContainerChanged(w) ==
    /\ Idle
    /\ w \in ctPending
    /\ ctPending' = ctPending \ {w}
    /\ LET r == ContainerChangedResult(w, parent, container, mainw, attached,
                                       timers, elems)
       IN  /\ r.timers[w] <= MaxTimers
           /\ mainw' = r.mainw
           /\ attached' = r.attached
           /\ timers' = r.timers
    /\ UNCHANGED <<st, parent, children, container, need_main_widget, elems,
                   stack, log>>

\* A retry scheduled with window.setTimeout fires and runs the body again.
RetryFires(w) ==
    /\ Idle
    /\ timers[w] > 0
    /\ LET r == ContainerChangedResult(w, parent, container, mainw, attached,
                                       [timers EXCEPT ![w] = @ - 1], elems)
       IN  /\ mainw' = r.mainw
           /\ attached' = r.attached
           /\ timers' = r.timers
    /\ UNCHANGED <<st, parent, children, container, need_main_widget, elems,
                   ctPending, stack, log>>

\* The page gets an element with this id.
ElementAppears(id) ==
    /\ Idle
    /\ id \in OtherIds \ elems
    /\ elems' = elems \cup {id}
    /\ UNCHANGED <<st, parent, children, container, need_main_widget,
                   ctPending, timers, mainw, attached, stack, log>>

\* ---------------------------------------------------------------- dispose
Frame(w, kids) == [w |-> w, kids |-> kids, i |-> 1]

Top == stack[Len(stack)]

OnStack(w) == \E k \in 1..Len(stack) : stack[k].w = w

\* The loop "for child in children: child.dispose()" of the frame is over.
ChildrenDoneEarly(f) == TRUE

ChildrenDone(f) == f.i > Len(f.kids)

\* w.dispose() is called.
Dispose(w) ==
    /\ Idle
    /\ w \in Live
    /\ stack' = <<Frame(w, children[w])>>
    /\ UNCHANGED <<st, parent, children, container, need_main_widget,
                   ctPending, timers, mainw, attached, elems, log>>

\* The loop of dispose() reaches its next child and calls child.dispose().
\* A child whose dispose() is already running (the hierarchy has a cycle)
\* recurses without end: the error unwinds every frame.
DisposeChild ==
    /\ ~Idle
    /\ Top.i <= Len(Top.kids)
    /\ LET c == Top.kids[Top.i]
           rest == [stack EXCEPT ![Len(stack)].i = @ + 1]
       IN  stack' = IF OnStack(c)
                    THEN <<>>
                    ELSE Append(rest, Frame(c, children[c]))
    /\ UNCHANGED <<st, parent, children, container, need_main_widget,
                   ctPending, timers, mainw, attached, elems, log>>

\* The base class's dispose(): the component is disposed and its
\* reactions are disconnected.
BaseDispose(w) ==
    /\ st' = [st EXCEPT ![w] = "disposed"]
    /\ ctPending' = ctPending \ {w}

\* The rest of dispose() after the loop: the base disposal,
\* set_parent(None), and the clearing of the own children.
DisposeFinish ==
    /\ ~Idle
    /\ ChildrenDone(Top)
    /\ LET w == Top.w
           r == SetParentResult(parent, children, w, None, PosNone)
       IN  /\ BaseDispose(w)
           /\ parent' = r.parent
           /\ children' = [r.children EXCEPT ![w] = <<>>]
           /\ log' = log \o <<[ev |-> "detach", w |-> w, kids |-> Top.kids],
                              [ev |-> "done", w |-> w, kids |-> <<>>]>>
    /\ stack' = SubSeq(stack, 1, Len(stack) - 1)
    /\ UNCHANGED <<container, need_main_widget, timers, mainw, attached, elems>>

\* ------------------------------------------------------------- real nodes
NodeIds == 1..MaxNodes

\* The outer anchor of the widget that renders.
Anchor == 1

\* tag "" marks a node not created yet. nodeName is the tag in upper case.
Upper(t) == IF t \in {"div", "DIV"} THEN "DIV" ELSE "SPAN"

Lower(t) == IF t \in {"div", "DIV"} THEN "div" ELSE "span"

\* The attributes a prop can reach, as paths of member names.
AttrPaths == {<<"className">>, <<"style", "color">>}

NoAttrs == [a \in AttrPaths |-> ""]

\* classList.contains(name) for the class names used here.
HasClass(cn, name) == cn = name

Created(d) == {n \in NodeIds : d.tag[n] # ""}

RECURSIVE Subtree(_, _)
\* A node and its descendants.
Subtree(d, n) == {n} \cup UNION {Subtree(d, d.kids[n][i]) : i \in 1..Len(d.kids[n])}

\* A node leaves the child list it is in (a node has one place in the tree).
Detach(d, c) == [d EXCEPT !.kids = [m \in NodeIds |-> RemoveAll(d.kids[m], c)]]

\* Results of the DOM calls and of the passes: the nodes, the node
\* returned, and the error raised ("" for none).
Ok(d, n) == [d |-> d, node |-> n, err |-> ""]

Raise(d, e) == [d |-> d, node |-> None, err |-> e]

\* window.document.createElement(type): the first unused node. None when
\* the model has no node left.
FreeNode(d) ==
    IF Created(d) = NodeIds THEN None
    ELSE CHOOSE n \in NodeIds \ Created(d) : \A m \in NodeIds \ Created(d) : n <= m

CreateElementDiv(d, n, type) == [d EXCEPT !.tag[n] = "DIV"]

CreateElement(d, n, type) == [d EXCEPT !.tag[n] = Upper(type)]

\* node.removeChild(c)
RemoveChild(d, node, c) ==
    IF c \in Range(d.kids[node])
    THEN Ok([d EXCEPT !.kids[node] = RemoveAll(@, c)], node)
    ELSE Raise(d, "NotFoundError")

\* node.appendChild(c): c moves from where it is to the end of the list.
AppendChild(d, node, c) ==
    IF node \in Subtree(d, c)
    THEN Raise(d, "HierarchyRequestError")
    ELSE LET d1 == Detach(d, c)
         IN  Ok([d1 EXCEPT !.kids[node] = Append(@, c)], node)

IndexOf(s, x) == CHOOSE i \in 1..Len(s) : s[i] = x

\* node.insertBefore(c, ref): c moves from where it is to just before ref.
InsertBefore(d, node, c, ref) ==
    IF node \in Subtree(d, c) THEN Raise(d, "HierarchyRequestError")
    ELSE IF ref \notin Range(d.kids[node]) THEN Raise(d, "NotFoundError")
    ELSE LET d1 == Detach(d, c)
             k == IndexOf(d1.kids[node], ref)
         IN  Ok([d1 EXCEPT !.kids[node] =
                    SubSeq(@, 1, k - 1) \o <<c>> \o SubSeq(@, k, Len(@))], node)

\* node.innerHTML = s, for a text without markup: the children go.
SetInnerHTML(d, node, s) ==
    [d EXCEPT !.kids[node] = <<>>, !.html[node] = s]

\* ---------------------------------------------------------- virtual nodes
\* The children field of a virtual node: None, a string, a list, or
\* anything else.
ChNone == [ck |-> "none", s |-> "", items |-> <<>>]
ChStr(s) == [ck |-> "str", s |-> s, items |-> <<>>]
ChList(items) == [ck |-> "list", s |-> "", items |-> items]
ChOther == [ck |-> "other", s |-> "", items |-> <<>>]

\* What a pass can be given: a real node, a string, a dict (type, props,
\* children), or anything else. A type that is no string is NotStr, props
\* that are no dict are NotDict.
Real(n) == [k |-> "real", n |-> n]
Str(s) == [k |-> "str", s |-> s]
Dict(type, props, ch) == [k |-> "dict", type |-> type, props |-> props, ch |-> ch]
Other == [k |-> "other"]
NotStr == "<no str>"
NotDict == <<<<"<no dict>", "">>>>

\* create_element(type, props, *children), with props given.
create_element(type, props, args) ==
    Dict(type, props,
         IF Len(args) = 0 THEN ChNone
         ELSE IF Len(args) = 1 /\ args[1].k = "str" THEN ChStr(args[1].s)
         ELSE IF Len(args) = 1 /\ args[1].k = "list" THEN ChList(args[1].items)
         ELSE ChList(args))

\* key.replace('__', '.').split('.') for the keys used here.
KeyParts(key) ==
    IF key \in {"style.color", "style__color"} THEN <<"style", "color">>
    ELSE <<key>>

\* map.get(key, key) with map = {'css_class': 'className', 'class': 'className'}
Renamed(key) == IF key \in {"css_class", "class"} THEN "className" ELSE key

\* The attribute a prop key assigns to.
PropPath(key) ==
    LET parts == KeyParts(key)
    IN  SubSeq(parts, 1, Len(parts) - 1) \o <<Renamed(parts[Len(parts)])>>

RECURSIVE ApplyProps(_, _, _)
\* "for key, val in vnode.props.items(): ..."
ApplyProps(d, n, props) ==
    IF props = <<>> THEN d
    ELSE ApplyProps([d EXCEPT !.attrs[n][PropPath(props[1][1])] = props[1][2]],
                    n, Tail(props))

\* "while len(node.children) > len(vnode.children): removeChild(last)"
Truncate(d, n, len) ==
    IF Len(d.kids[n]) > len
    THEN [d EXCEPT !.kids[n] = SubSeq(@, 1, len)]
    ELSE d

\* The string given as a virtual node.
StrAsDict(s) == Dict("span", <<>>, ChStr(s))

\* "node is None or node.nodeName.lower() != vnode.type.lower()" is false:
\* the node given is used.
ReusableAnyTag(d, node, type) == node # None

Reusable(d, node, type) == node # None /\ Lower(d.tag[node]) = Lower(type)

\* The branch "Resolve content" takes.
ContentKindNoneAsList(ch) == IF ch.ck = "none" THEN "list" ELSE ch.ck

ContentKind(ch) == ch.ck

RECURSIVE Resolve(_, _, _)
RECURSIVE ResolveChildren(_, _, _, _)

\* The loop "for i2 in range(len(vnode.children))", from item i on.
ResolveChildren(d, items, node, i) ==
    IF i > Len(items) THEN Ok(d, node)
    ELSE LET subnode == IF i <= Len(d.kids[node]) THEN d.kids[node][i] ELSE None
             r == Resolve(d, items[i], subnode)
         IN  IF r.err # "" THEN r
             ELSE IF subnode = None
             THEN LET a == AppendChild(r.d, node, r.node)
                  IN  IF a.err # "" THEN a
                      ELSE ResolveChildren(a.d, items, node, i + 1)
             ELSE IF subnode # r.node
             THEN LET a == InsertBefore(r.d, node, r.node, subnode)
                      b == IF a.err # "" THEN a ELSE RemoveChild(a.d, node, subnode)
                  IN  IF b.err # "" THEN b
                      ELSE ResolveChildren(b.d, items, node, i + 1)
             ELSE ResolveChildren(r.d, items, node, i + 1)

\* "Resolve content" of __render_resolve.
ResolveContent(d, node, ch) ==
    LET kind == ContentKind(ch)
    IN  IF kind = "none" THEN Ok(d, node)
        ELSE IF kind = "str" THEN Ok(SetInnerHTML(d, node, ch.s), node)
        ELSE IF kind = "list"
        THEN ResolveChildren(Truncate(d, node, Len(ch.items)), ch.items, node, 1)
        ELSE Raise(d, "TypeError")

\* __render_resolve(vnode, node)
Resolve(d, v, node) ==
    IF v.k = "real" THEN Ok(d, v.n)
    ELSE IF v.k \notin {"str", "dict"} THEN Raise(d, "TypeError")
    ELSE LET vd == IF v.k = "str" THEN StrAsDict(v.s) ELSE v
         IN  IF vd.type = NotStr \/ vd.props = NotDict THEN Raise(d, "TypeError")
             ELSE IF Reusable(d, node, vd.type)
             THEN ResolveContent(ApplyProps(d, node, vd.props), node, vd.ch)
             ELSE IF FreeNode(d) = None THEN Raise(d, "OutOfNodes")
             ELSE LET n == FreeNode(d)
                  IN  ResolveContent(
                          ApplyProps(CreateElement(d, n, vd.type), n, vd.props),
                          n, vd.ch)

\* ----------------------------------------------------------------- render
\* The root of a dict that _render_dom returned has the outer anchor's type.
RootTypeAny(d, v) == TRUE

RootTypeMatches(d, v) == Lower(v.type) = Lower(d.tag[Anchor])

\* "type=self.outernode.nodeName": the type that a string or a list
\* returned by _render_dom is wrapped with.
RootTypeSpan(d) == "span"

RootType(d) == d.tag[Anchor]

\* "assert node is self.outernode", on the outcome r of the pass.
Asserted(r) ==
    IF r.err = "" /\ r.node # Anchor THEN Raise(r.d, "AssertionError") ELSE r

\* __render for the value v that _render_dom returned: None ("none"), a
\* real node, a string, a list, a dict, or anything else.
Render(d, v) ==
    IF v.k = "none" THEN Ok(d, Anchor)
    ELSE IF v.k = "real" /\ v.n = Anchor THEN Ok(d, Anchor)
    ELSE IF v.k = "str"
    THEN Asserted(Resolve(d, Dict(RootType(d), <<>>, ChStr(v.s)), Anchor))
    ELSE IF v.k = "list"
    THEN Asserted(Resolve(d, Dict(RootType(d), <<>>, ChList(v.items)), Anchor))
    ELSE IF v.k = "dict"
    THEN IF v.type = NotStr THEN Raise(d, "TypeError")
         ELSE IF ~RootTypeMatches(d, v) THEN Raise(d, "ValueError")
         ELSE Asserted(Resolve(d, v, Anchor))
    ELSE Raise(d, "TypeError")

\* The default _render_dom(): the children of the outer anchor that are no
\* widgets, then the outer nodes of the child widgets (wk).
RenderDomWidgetsOnly(d, wk) ==
    [k |-> "list", items |-> [i \in 1..Len(wk) |-> Real(wk[i])]]

RenderDom(d, wk) ==
    LET plain == SelectSeq(d.kids[Anchor],
                    LAMBDA n : ~HasClass(d.attrs[n][<<"className">>], "flx-Widget"))
    IN  [k |-> "list",
         items |-> [i \in 1..Len(plain) |-> Real(plain[i])]
                   \o [i \in 1..Len(wk) |-> Real(wk[i])]]

\* ------------------------------------------------- the reconciler's inputs
\* The real nodes at the start: the outer anchor (1), the outer nodes of
\* two child widgets (2, a div holding a span, and 3, a span), a span that
\* is no widget (4), and the span inside 2 (5).
WidgetNodes == {2, 3}
PlainNodes == {4}

InitTag == [n \in NodeIds |->
              IF n \in {1, 2} THEN "DIV" ELSE IF n \in {3, 4, 5} THEN "SPAN" ELSE ""]

InitAttrs == [n \in NodeIds |->
                IF n \in {1, 2, 3}
                THEN [NoAttrs EXCEPT ![<<"className">>] = "flx-Widget"]
                ELSE NoAttrs]

\* Sequences without repetition over a set, up to a length.
RECURSIVE Arrangements(_, _)
Arrangements(S, len) ==
    IF len = 0 THEN {<<>>}
    ELSE {<<>>} \cup UNION {{<<x>> \o t : t \in Arrangements(S \ {x}, len - 1)} : x \in S}

InitDom(top) ==
    [tag |-> InitTag,
     attrs |-> InitAttrs,
     kids |-> [n \in NodeIds |-> IF n = Anchor THEN top ELSE IF n = 2 THEN <<5>> ELSE <<>>],
     html |-> [n \in NodeIds |-> ""]]

PropsClass == <<<<"class", "k">>>>
PropsTwo == <<<<"css_class", "k">>, <<"style__color", "red">>>>

\* The items of a children list: real nodes, a string, and dicts.
Items ==
    {Real(2), Real(4), Str("t"),
     create_element("div", PropsClass, <<>>),
     create_element("div", <<>>, <<Real(3)>>)}

Lists == UNION {[1..n -> Items] : n \in 0..MaxLen}

ChildrenArgs ==
    {<<>>, <<Str("t")>>} \cup {<<[k |-> "list", items |-> l]>> : l \in Lists}

\* The type and props that the virtual nodes are built with.
Heads == {<<"div", <<>>>>, <<"div", PropsTwo>>, <<"span", <<>>>>}

Dicts ==
    {create_element(h[1], h[2], a) : h \in Heads, a \in ChildrenArgs}
    \cup {Dict(NotStr, <<>>, ChNone), Dict("div", NotDict, ChNone),
          Dict("div", <<>>, ChOther)}

\* What __render_resolve is called with, and the nodes it is called against.
VNodes == {Real(2), Real(4), Str("t"), Other} \cup Dicts
Targets == {None, Anchor, 4}

\* What _render_dom can return.
RenderOutputs ==
    {[k |-> "none"], Real(Anchor), Real(2), Str("t"), Other}
    \cup {[k |-> "list", items |-> l] : l \in Lists} \cup Dicts

\* ------------------------------------------------------- reconciler steps
NoOp == [kind |-> "", v |-> Other, n |-> None, wk |-> <<>>]

Pass(r, kind, v, n, wk) ==
    /\ r.err # "OutOfNodes"
    /\ dom' = r.d
    /\ pre' = dom
    /\ op' = [kind |-> kind, v |-> v, n |-> n, wk |-> wk]
    /\ res' = [node |-> r.node, err |-> r.err]

\* __render_resolve(v, n) is called.
Reconcile(v, n) ==
    /\ phase = "start"
    /\ Pass(Resolve(dom, v, n), "resolve", v, n, <<>>)
    /\ phase' = "once"
    /\ UNCHANGED hvars

\* The render reaction runs with v as the value of _render_dom().
RenderReaction(v) ==
    /\ phase = "start"
    /\ Pass(Render(dom, v), "render", v, Anchor, <<>>)
    /\ phase' = "once"
    /\ UNCHANGED hvars

\* The render reaction runs with the default _render_dom(), the widget's
\* children having the outer nodes wk.
RenderDefault(wk) ==
    /\ phase = "start"
    /\ Pass(Render(dom, RenderDom(dom, wk)), "default", RenderDom(dom, wk), Anchor, wk)
    /\ phase' = "once"
    /\ UNCHANGED hvars

\* The same pass once more, against what the first pass returned.
Again ==
    /\ phase = "once"
    /\ res.err = ""
    /\ IF op.kind = "resolve"
       THEN Pass(Resolve(dom, op.v, res.node), "resolve", op.v, res.node, <<>>)
       ELSE IF op.kind = "render"
       THEN Pass(Render(dom, op.v), "render", op.v, Anchor, <<>>)
       ELSE Pass(Render(dom, RenderDom(dom, op.wk)), "default",
                 RenderDom(dom, op.wk), Anchor, op.wk)
    /\ phase' = "twice"
    /\ UNCHANGED hvars

RStart(top) ==
    /\ dom = InitDom(top)
    /\ pre = InitDom(top)
    /\ op = NoOp
    /\ res = [node |-> None, err |-> ""]
    /\ phase = "start"

\* ------------------------------------------------------------ mouse capture
\* The widget whose node gets the mouse events.
MouseWidget == 1

\* Values of the capture_mouse property (an IntProp, 1 by default).
CaptureModes == 0..MaxMode

\* mode_since when no press-down on the widget is on record.
NoPress == 0 - 1

\* The state the handlers of _init_events work on: _capture_flag, whether
\* mmove_outside and mup_outside are installed on the document, and the
\* events emitted so far in this dispatch.
MS(flag, doc, out) == [flag |-> flag, doc |-> doc, out |-> out]

\* An emitter (mouse_down, mouse_move, mouse_up) is called.
Emit(m, name) == [m EXCEPT !.out = Append(@, name)]

mdownNoCapture(m, mode) == [m EXCEPT !.flag = 1]

mdown(m, mode) ==
    IF mode = 0
    THEN [m EXCEPT !.flag = 1]
    ELSE [m EXCEPT !.flag = 2, !.doc = TRUE]

\* "self.capture_mouse > 1" of mmove_inside.
HoverTrackedFromOne(mode) == mode > 0

HoverTracked(mode) == mode > 1

mmove_inside(m, mode) ==
    IF m.flag = -1 THEN [m EXCEPT !.flag = 0]
    ELSE IF m.flag = 1 THEN Emit(m, "mouse_move")
    ELSE IF m.flag = 0 /\ HoverTracked(mode) THEN Emit(m, "mouse_move")
    ELSE m

mup_insideAlways(m) == [Emit(m, "mouse_up") EXCEPT !.flag = 0]

mup_inside(m) ==
    LET m1 == IF m.flag = 1 THEN Emit(m, "mouse_up") ELSE m
    IN  [m1 EXCEPT !.flag = 0]

mmove_outsideSilent(m) == m

mmove_outside(m) == IF m.flag = 2 THEN Emit(m, "mouse_move") ELSE m

stopcaptureToIdle(m) ==
    IF m.flag = 2 THEN [m EXCEPT !.flag = 0, !.doc = FALSE] ELSE m

stopcapture(m) ==
    IF m.flag = 2 THEN [m EXCEPT !.flag = -1, !.doc = FALSE] ELSE m

mup_outsideKeepsCapture(m) == IF m.flag = 2 THEN Emit(m, "mouse_up") ELSE m

mup_outside(m) == IF m.flag = 2 THEN Emit(stopcapture(m), "mouse_up") ELSE m

losecapture(m) == stopcapture(m)

\* A mousedown on the node: mdown (capture phase) and the mouse_down emitter.
OnMouseDown(m, mode) == Emit(mdown(m, mode), "mouse_down")

\* A mousemove: the listener on the document, when installed, runs in the
\* capture phase; mmove_inside runs after it when the pointer is over the
\* node.
OnMouseMove(m, mode, inside) ==
    LET m1 == IF m.doc THEN mmove_outside(m) ELSE m
    IN  IF inside THEN mmove_inside(m1, mode) ELSE m1

\* A mouseup, dispatched the same way.
OnMouseUp(m, inside) ==
    LET m1 == IF m.doc THEN mup_outside(m) ELSE m
    IN  IF inside THEN mup_inside(m1) ELSE m1

Current == MS(capture_flag, doc_listeners, <<>>)

\* History: the input of a step, with _capture_flag before it and the
\* input of the step before.
Input(ev, inside) ==
    [ev |-> ev, inside |-> inside, flag |-> capture_flag, prev |-> mlast.ev]

NoInput == [ev |-> "", inside |-> FALSE, flag |-> 0, prev |-> ""]

\* The handlers have run: their outcome becomes the state.
Deliver(m, ev, inside) ==
    /\ capture_flag' = m.flag
    /\ doc_listeners' = m.doc
    /\ emitted' = m.out
    /\ mlast' = Input(ev, inside)

\* A button is pressed: the first one, or a second one while the first is
\* held down.
Pressed ==
    /\ ~second
    /\ button' = TRUE
    /\ second' = button

\* A button is let go: the second one if two are held down.
Released ==
    /\ button
    /\ button' = second
    /\ second' = FALSE

\* A button goes down with the pointer over the widget.
MouseDown ==
    /\ Idle
    /\ MouseWidget \in Live
    /\ Pressed
    /\ Deliver(OnMouseDown(Current, capture_mouse), "down", TRUE)
    /\ mode_since' = capture_mouse
    /\ UNCHANGED capture_mouse

\* A button goes down elsewhere on the page: no listener of the widget runs.
MouseDownElsewhere ==
    /\ Idle
    /\ Pressed
    /\ Deliver(Current, "down_elsewhere", FALSE)
    /\ UNCHANGED <<capture_mouse, mode_since>>

\* The pointer moves, over the widget (inside) or elsewhere.
MouseMove(inside) ==
    /\ Idle
    /\ inside => MouseWidget \in Live
    /\ Deliver(OnMouseMove(Current, capture_mouse, inside), "move", inside)
    /\ UNCHANGED <<button, second, capture_mouse, mode_since>>

\* The button is released, over the widget (inside) or elsewhere.
MouseUp(inside) ==
    /\ Idle
    /\ inside => MouseWidget \in Live
    /\ Released
    /\ Deliver(OnMouseUp(Current, inside), "up", inside)
    /\ UNCHANGED <<capture_mouse, mode_since>>

\* The node gets a losecapture event.
LoseCapture ==
    /\ Idle
    /\ MouseWidget \in Live
    /\ Deliver(losecapture(Current), "losecapture", TRUE)
    /\ UNCHANGED <<button, second, capture_mouse, mode_since>>

\* set_capture_mouse(mode)
SetCaptureMouse(mode) ==
    /\ Idle
    /\ MouseWidget \in Live
    /\ capture_mouse' = mode
    /\ mode_since' = NoPress
    /\ emitted' = <<>>
    /\ mlast' = Input("set", FALSE)
    /\ UNCHANGED <<capture_flag, doc_listeners, button, second>>

\* A step that is no mouse input and emits no mouse event.
Quiet ==
    /\ emitted' = <<>>
    /\ mlast' = Input("", FALSE)
    /\ UNCHANGED <<capture_mouse, capture_flag, doc_listeners, button, second,
                   mode_since>>

MStart ==
    /\ capture_flag = 0
    /\ doc_listeners = FALSE
    /\ button = FALSE
    /\ second = FALSE
    /\ emitted = <<>>
    /\ mlast = NoInput
    /\ mode_since = NoPress

\* ------------------------------------------------------------- size query
\* The values of minWidth, maxWidth, minHeight and maxHeight that
\* window.getComputedStyle gives.
StyleValues == {"0", "10px", "20px", "40px", "none", "auto"}

\* "mima[i].endswith('px')"
EndsWithPx(s) == s \in {"10px", "20px", "40px"}

\* "float(mima[i][:-2])"
PxNumber(s) ==
    CASE s = "10px" -> 10
      [] s = "20px" -> 20
      [] s = "40px" -> 40

\* The maximum used when the style gives none.
NoMaximum == 1000000000

\* One entry of mima after the parsing loop; i is 0 and 2 for the minima,
\* 1 and 3 for the maxima.
ParseSize(s, i) ==
    IF s = "0" THEN 0
    ELSE IF EndsWithPx(s) THEN PxNumber(s)
    ELSE IF i = 0 \/ i = 2 THEN 0
    ELSE NoMaximum

\* "0.5 * (a + b)"; the sums that occur here are even.
Average(a, b) == (a + b) \div 2

ClampInvertedNever(lo, hi) == <<lo, hi>>

\* "if mima[0] > mima[1]: mima[0] = mima[1] = 0.5 * (mima[0] + mima[1])"
ClampInverted(lo, hi) ==
    IF lo > hi THEN <<Average(lo, hi), Average(lo, hi)>> ELSE <<lo, hi>>

\* _query_min_max_size for the four style values.
QueryMinMaxSize(style) ==
    LET w == ClampInverted(ParseSize(style[1], 0), ParseSize(style[2], 1))
        h == ClampInverted(ParseSize(style[3], 2), ParseSize(style[4], 3))
    IN  <<w[1], w[2], h[1], h[2]>>

\* No call made, and a call that has not returned.
NoArgs == [fn |-> ""]

Pending == [err |-> "pending"]

\* _check_min_max_size: the query, and size_min_max set to its result.
CheckMinMaxSize ==
    /\ given.fn = "size"
    /\ returned = Pending
    /\ returned' = [err |-> "", mima |-> QueryMinMaxSize(given.style)]
    /\ UNCHANGED <<given, sp>>

\* ----------------------------------------------------------- event records
\* A field that the raw event does not have, and the value of an
\* expression that reads it.
Undefined == 0 - 1000

\* The number that arithmetic on undefined gives.
NaN == 0 - 1001

\* A string field that the raw event does not have.
UndefinedStr == "undefined"

Falsy(x) == x \in {Undefined, NaN, 0}

FalsyStr(s) == s \in {UndefinedStr, ""}

\* a - b and a * b on numbers that may be undefined.
Minus(a, b) == IF {a, b} \cap {Undefined, NaN} # {} THEN NaN ELSE a - b

Times(a, b) == IF {a, b} \cap {Undefined, NaN} # {} THEN NaN ELSE a * b

\* "[n for n in ('Alt', 'Shift', 'Ctrl', 'Meta') if e[n.lower()+'Key']]"
Modifiers(e) ==
    SelectSeq(<<"Alt", "Shift", "Ctrl", "Meta">>,
              LAMBDA n : \/ n = "Alt" /\ e.altKey
                         \/ n = "Shift" /\ e.shiftKey
                         \/ n = "Ctrl" /\ e.ctrlKey
                         \/ n = "Meta" /\ e.metaKey)

\* "buttons = [i+1 for i in range(5) if buttons_mask[i] == '1']", with the
\* mask of e.buttons (the reversed e.buttons.toString(2)), or with the
\* one-element list [e.button.toString(2)] when e.buttons is not there or 0.
PressedButtons(e) ==
    IF ~Falsy(e.buttons)
    THEN SelectSeq(<<1, 2, 3, 4, 5>>,
                   LAMBDA b : (e.buttons \div (2 ^ (b - 1))) % 2 = 1)
    ELSE IF e.button = 1 THEN <<1>> ELSE <<>>

\* "{0: 1, 1: 3, 2: 2, 3: 4, 4: 5}[e.button]": a key that the dict does
\* not have gives undefined.
ButtonOf(b) ==
    CASE b = 0 -> 1
      [] b = 1 -> 3
      [] b = 2 -> 2
      [] b = 3 -> 4
      [] b = 4 -> 5
      [] OTHER -> Undefined

\* _create_mouse_event(e) for a node whose rect has left 2 and top 3:
\* e.button.toString raises when e.button is not there.
CreateMouseEvent(e) ==
    IF Falsy(e.buttons) /\ e.button = Undefined
    THEN [err |-> "TypeError", pos |-> <<>>, page_pos |-> <<>>,
          button |-> Undefined, buttons |-> <<>>, modifiers |-> <<>>]
    ELSE [err |-> "",
          pos |-> <<Minus(e.clientX, 2), Minus(e.clientY, 3)>>,
          page_pos |-> <<e.pageX, e.pageY>>,
          button |-> ButtonOf(e.button),
          buttons |-> PressedButtons(e),
          modifiers |-> Modifiers(e)]

WheelFactorOne(mode) == IF mode \in 0..2 THEN 1 ELSE Undefined

\* "[1, 16, 600][e.deltaMode]": an index that the list does not have gives
\* undefined.
WheelFactor(mode) == IF mode \in 0..2 THEN <<1, 16, 600>>[mode + 1] ELSE Undefined

\* The record that mouse_wheel(e) returns: the mouse event with button 0
\* and the scroll amounts.
WheelEvent(e) ==
    LET ev == CreateMouseEvent(e)
    IN  IF ev.err # ""
        THEN [ev |-> ev, hscroll |-> NaN, vscroll |-> NaN]
        ELSE [ev |-> [ev EXCEPT !.button = 0],
              hscroll |-> Times(e.deltaX, WheelFactor(e.deltaMode)),
              vscroll |-> Times(e.deltaY, WheelFactor(e.deltaMode))]

\* The values of e.code used here.
Codes == {"KeyA", "Digit1", "Enter", "Esc"}

\* The key taken from e.code: "key[3:]" when it starts with 'Key', in
\* lower case unless Shift is held, "key[5:]" when it starts with 'Digit'.
KeyOfCode(code, modifiers) ==
    CASE code = "KeyA" -> IF "Shift" \notin Range(modifiers) THEN "a" ELSE "A"
      [] code = "Digit1" -> "1"
      [] OTHER -> code

\* "{'Esc': 'Escape', 'Del': 'Delete'}.get(key, key)"
StandardKey(key) ==
    CASE key = "Esc" -> "Escape"
      [] key = "Del" -> "Delete"
      [] OTHER -> key

\* _create_key_event(e)
CreateKeyEvent(e) ==
    LET modifiers == Modifiers(e)
        key == IF FalsyStr(e.key) /\ ~FalsyStr(e.code)
               THEN KeyOfCode(e.code, modifiers)
               ELSE e.key
    IN  [err |-> "", key |-> StandardKey(key), modifiers |-> modifiers]

\* The raw events: mouse and wheel events with fields missing or out of
\* range, key events with key or code missing.
RawMouseEvents ==
    [button : {Undefined, 0, 1, 2, 4, 5},
     buttons : {Undefined, 0, 1, 5, 16},
     clientX : {Undefined, 7}, clientY : {9}, pageX : {20}, pageY : {30},
     altKey : {FALSE}, shiftKey : BOOLEAN, ctrlKey : BOOLEAN, metaKey : {FALSE}]

RawWheelEvents ==
    {m @@ d :
        m \in {r \in RawMouseEvents : r.clientX = 7 /\ ~r.ctrlKey},
        d \in [deltaMode : {Undefined, 0, 1, 2, 3}, deltaX : {0, 3},
               deltaY : {Undefined, 0 - 1, 2}]}

RawKeyEvents ==
    [key : {UndefinedStr, "", "a", "Esc", "Del", "Enter"},
     code : {UndefinedStr} \cup Codes,
     altKey : {FALSE}, shiftKey : BOOLEAN, ctrlKey : BOOLEAN, metaKey : {FALSE}]

\* A mouse_down, mouse_up or mouse_move emitter builds its record.
MouseEventBuilt ==
    /\ given.fn = "mouse"
    /\ returned = Pending
    /\ returned' = CreateMouseEvent(given.e)
    /\ UNCHANGED <<given, sp>>

\* mouse_wheel(e)
MouseWheel ==
    /\ given.fn = "wheel"
    /\ returned = Pending
    /\ returned' = WheelEvent(given.e)
    /\ UNCHANGED <<given, sp>>

\* A key_down, key_up or key_press emitter builds its record.
KeyEventBuilt ==
    /\ given.fn = "key"
    /\ returned = Pending
    /\ returned' = CreateKeyEvent(given.e)
    /\ UNCHANGED <<given, sp>>

\* The calls: the query with any style values, a builder with any raw
\* event.
Calls ==
    [fn : {"size"}, style : [1..4 -> StyleValues]]
    \cup [fn : {"mouse"}, e : RawMouseEvents]
    \cup [fn : {"wheel"}, e : RawWheelEvents]
    \cup [fn : {"key"}, e : RawKeyEvents]

\* No set_parent call on record, no query or event builder called.
EStart ==
    /\ sp = NoCall
    /\ given = NoArgs
    /\ returned = Pending

\* ---------------------------------------------------------- specification
HInit ==
    /\ parent = [w \in Widgets |-> None]
    /\ children = [w \in Widgets |-> <<>>]
    /\ container = [w \in Widgets |-> ""]
    /\ ctPending = {}
    /\ timers = [w \in Widgets |-> 0]
    /\ mainw = {}
    /\ attached = [w \in Widgets |-> ""]
    /\ elems = {}
    /\ stack = <<>>
    /\ log = <<>>
    /\ hist = <<>>

\* The hierarchy: NW widgets, constructed without parent or container in a
\* page that asks for no main widget, are reparented and disposed.
Init ==
    /\ HInit
    /\ RStart(<<>>)
    /\ capture_mouse = 1
    /\ MStart
    /\ EStart
    /\ st = [w \in Widgets |-> "live"]
    /\ need_main_widget = FALSE

Next ==
    \/ \E w \in Widgets, p \in WidgetOrNone, pos \in PosArgs :
          SetParent(w, p, pos) /\ UNCHANGED <<hist, rvars, mvars, evars>>
    \/ \E w \in Widgets : Dispose(w) /\ UNCHANGED <<hist, rvars, mvars, evars>>
    \/ DisposeChild /\ UNCHANGED <<hist, rvars, mvars, evars>>
    \/ DisposeFinish /\ UNCHANGED <<hist, rvars, mvars, evars>>

\* The same, with the history of the set_parent calls kept.
HistNext ==
    \/ \E w \in Widgets, p \in WidgetOrNone, pos \in PosArgs :
          SetParent(w, p, pos) /\ Tracked(w, p) /\ UNCHANGED <<rvars, mvars, evars>>
    \/ \E w \in Widgets : Dispose(w) /\ UNCHANGED <<hist, rvars, mvars, evars>>
    \/ DisposeChild /\ UNCHANGED <<hist, rvars, mvars, evars>>
    \/ DisposeFinish /\ Tracked(Top.w, None) /\ UNCHANGED <<rvars, mvars, evars>>

vars == <<hvars, rvars, mvars, evars>>

Spec == Init /\ [][Next]_vars

SpecHist == Init /\ [][HistNext]_vars

\* The mounting: the first NM widgets, built with any container in a page
\* that may ask for a main widget, reparented, and mounted by the
\* 'container' reaction.
MountWidgets == 1..NM

MountInit ==
    /\ HInit
    /\ RStart(<<>>)
    /\ capture_mouse = 1
    /\ MStart
    /\ EStart
    /\ st = [w \in Widgets |-> "new"]
    /\ need_main_widget \in BOOLEAN

MountNext ==
    \/ \E w \in MountWidgets, p \in WidgetOrNone, id \in ContainerIds :
          Construct(w, p, id) /\ UNCHANGED <<hist, rvars, mvars, evars>>
    \/ \E w \in MountWidgets, p \in WidgetOrNone, pos \in PosArgs :
          SetParent(w, p, pos) /\ UNCHANGED <<hist, rvars, mvars, evars>>
    \/ \E w \in MountWidgets, id \in ContainerIds :
          SetContainer(w, id) /\ UNCHANGED <<hist, rvars, mvars, evars>>
    \/ \E w \in MountWidgets : ContainerChanged(w) /\ UNCHANGED <<hist, rvars, mvars, evars>>
    \/ \E w \in MountWidgets : RetryFires(w) /\ UNCHANGED <<hist, rvars, mvars, evars>>
    \/ \E id \in OtherIds : ElementAppears(id) /\ UNCHANGED <<hist, rvars, mvars, evars>>

SpecMount == MountInit /\ [][MountNext]_vars

\* The same where a timeout that is set fires: window.setTimeout runs its
\* callback after the delay.
TimeoutFires(w) == RetryFires(w) /\ UNCHANGED <<hist, rvars, mvars, evars>>

SpecMountFair ==
    /\ MountInit
    /\ [][MountNext]_vars
    /\ \A w \in MountWidgets : WF_vars(TimeoutFires(w))

\* The reconciler: a pass over one of the starting trees, and the same
\* pass again.
RenderInit ==
    /\ HInit
    /\ st = [w \in Widgets |-> "live"]
    /\ need_main_widget = FALSE
    /\ \E top \in Arrangements(WidgetNodes \cup PlainNodes, 3) : RStart(top)
    /\ capture_mouse = 1
    /\ MStart
    /\ EStart

RenderNext ==
    \/ \E v \in VNodes, n \in Targets : Reconcile(v, n) /\ UNCHANGED <<mvars, evars>>
    \/ \E v \in RenderOutputs : RenderReaction(v) /\ UNCHANGED <<mvars, evars>>
    \/ \E wk \in Arrangements(WidgetNodes, 2) : RenderDefault(wk) /\ UNCHANGED <<mvars, evars>>
    \/ Again /\ UNCHANGED <<mvars, evars>>

SpecRender == RenderInit /\ [][RenderNext]_vars

\* The mouse: one widget, built with any capture_mouse, gets mouse input,
\* is given a container, mounted, and disposed.
InputInit ==
    /\ HInit
    /\ RStart(<<>>)
    /\ st = [w \in Widgets |-> "live"]
    /\ need_main_widget = FALSE
    /\ capture_mouse \in CaptureModes
    /\ MStart
    /\ EStart

InputNext ==
    \/ MouseDown /\ UNCHANGED <<hvars, rvars, evars>>
    \/ MouseDownElsewhere /\ UNCHANGED <<hvars, rvars, evars>>
    \/ \E inside \in BOOLEAN : MouseMove(inside) /\ UNCHANGED <<hvars, rvars, evars>>
    \/ \E inside \in BOOLEAN : MouseUp(inside) /\ UNCHANGED <<hvars, rvars, evars>>
    \/ LoseCapture /\ UNCHANGED <<hvars, rvars, evars>>
    \/ \E mode \in CaptureModes : SetCaptureMouse(mode) /\ UNCHANGED <<hvars, rvars, evars>>
    \/ \E id \in ContainerIds :
          SetContainer(MouseWidget, id) /\ Quiet /\ UNCHANGED <<hist, rvars, evars>>
    \/ ContainerChanged(MouseWidget) /\ Quiet /\ UNCHANGED <<hist, rvars, evars>>
    \/ RetryFires(MouseWidget) /\ Quiet /\ UNCHANGED <<hist, rvars, evars>>
    \/ \E id \in OtherIds : ElementAppears(id) /\ Quiet /\ UNCHANGED <<hist, rvars, evars>>
    \/ Dispose(MouseWidget) /\ Quiet /\ UNCHANGED <<hist, rvars, evars>>
    \/ DisposeFinish /\ Quiet /\ UNCHANGED <<hist, rvars, evars>>

SpecInput == InputInit /\ [][InputNext]_vars

\* The placement: set_parent with any argument and any pos, the last call
\* kept on record.
PlaceNext ==
    \E w \in Widgets, arg \in WidgetOrNone \cup {NotAWidget}, pos \in PosAny :
       SetParentAny(w, arg, pos) /\ UNCHANGED <<hist, rvars, mvars, given, returned>>

SpecPlace == Init /\ [][PlaceNext]_vars

\* The size query and the event records: one call, with any of the style
\* values or raw events.
RecordInit ==
    /\ HInit
    /\ RStart(<<>>)
    /\ capture_mouse = 1
    /\ MStart
    /\ st = [w \in Widgets |-> "live"]
    /\ need_main_widget = FALSE
    /\ sp = NoCall
    /\ given \in Calls
    /\ returned = Pending

RecordNext ==
    \/ CheckMinMaxSize /\ UNCHANGED <<hvars, rvars, mvars>>
    \/ MouseEventBuilt /\ UNCHANGED <<hvars, rvars, mvars>>
    \/ MouseWheel /\ UNCHANGED <<hvars, rvars, mvars>>
    \/ KeyEventBuilt /\ UNCHANGED <<hvars, rvars, mvars>>

SpecRecord == RecordInit /\ [][RecordNext]_vars

\* ------------------------------------------------------------------ claims
\* C1: parent and children stay mutually consistent: a widget w occurs in
\* p.children exactly once if w.parent is p, and not at all otherwise, and
\* a children list holds widgets only.
ParentChildrenConsistent ==
    \A p \in Widgets :
        /\ Range(children[p]) \subseteq Widgets
        /\ \A w \in Widgets :
              Count(children[p], w) = IF parent[w] = p THEN 1 ELSE 0

\* C1 witness: a parent with two children, one of them moved to the front
\* of a list it was appended to.
TwoChildrenReordered ==
    \E p \in Widgets, a, b \in Widgets :
        /\ a < b
        /\ children[p] = <<b, a>>
        /\ parent[a] = p
        /\ parent[b] = p

\* C2: for a widget w with parent A, w.set_parent(B) followed by
\* w.set_parent(None) leaves w in neither A.children nor B.children, and
\* w.parent None.
IsSetThenClear ==
    /\ Len(hist) = 2
    /\ hist[1].old # None
    /\ hist[1].new # None
    /\ hist[2].new = None

SetThenClearDetaches ==
    IsSetThenClear =>
        LET w == hist[2].w
        IN  /\ parent[w] = None
            /\ w \notin Range(children[hist[1].old])
            /\ w \notin Range(children[hist[1].new])

\* C2 witness: the two calls were made, from a parent A to another widget B
\* that still has a child of its own.
SetThenClearDone ==
    /\ IsSetThenClear
    /\ hist[1].old # hist[1].new
    /\ hist[1].new # hist[1].w
    /\ children[hist[1].new] # <<>>
    /\ st[hist[2].w] = "live"

\* C3: in the ordering log of dispose(), every child a widget had when its
\* dispose() began has completed its own disposal before the widget is
\* detached from its parent.
ChildrenDisposedFirst ==
    \A j \in 1..Len(log) :
        log[j].ev = "detach" =>
            \A c \in Range(log[j].kids) :
                \E i \in 1..(j - 1) : log[i].ev = "done" /\ log[i].w = c

\* C3 witness: a widget with two children has been disposed.
DisposedWithTwoChildren ==
    \E j \in 1..Len(log) : log[j].ev = "detach" /\ Len(log[j].kids) = 2

\* C4, as stated: no widget has both a parent and a non-empty container.
NeverParentAndContainer ==
    \A w \in Widgets : ~(parent[w] # None /\ container[w] # "")

\* C4, amended: the container is consulted only while the parent is
\* absent. The mount reaction appends the outer anchor to the container
\* target, marks it as main widget or schedules a retry only for a widget
\* without parent, and the constructor hands out the 'body' container only
\* to a widget without parent.
MountStep(w) ==
    \/ attached'[w] # attached[w]
    \/ w \in mainw' \ mainw
    \/ timers'[w] > timers[w]

ContainerOnlyWhenParentless ==
    [][\A w \in Widgets :
          /\ MountStep(w) => parent[w] = None
          /\ (need_main_widget /\ ~need_main_widget' /\ st[w] # st'[w]) =>
                (parent'[w] = None /\ container'[w] = "body")
          /\ (st[w] = "new" /\ parent'[w] # None) =>
                need_main_widget' = need_main_widget]_vars

\* C4 witness: a widget holds a parent and a container, its mount reaction
\* has run, and its outer anchor was not mounted.
ParentAndContainerUnmounted ==
    \E w \in Widgets :
        /\ parent[w] # None
        /\ container[w] # ""
        /\ w \notin ctPending
        /\ attached[w] = ""
        /\ timers[w] = 0

\* ------------------------------------------------ claims on the reconciler
\* The real nodes that a virtual tree names, in the order it names them.
RECURSIVE Listed(_)
RECURSIVE ListedIn(_)
Listed(v) ==
    IF v.k = "real" THEN <<v.n>>
    ELSE IF v.k = "list" THEN ListedIn(v.items)
    ELSE IF v.k = "dict" /\ v.ch.ck = "list" THEN ListedIn(v.ch.items)
    ELSE <<>>

ListedIn(items) ==
    IF items = <<>> THEN <<>> ELSE Listed(items[1]) \o ListedIn(Tail(items))

\* No real node is named twice: a node has one place in a tree.
NoNodeTwice(v) == \A i, j \in 1..Len(Listed(v)) : i # j => Listed(v)[i] # Listed(v)[j]

\* A pass has run; op is what it was given, pre the nodes before it.
Passed == phase # "start"

\* The pass was __render_resolve of a dict against an existing node.
DictAgainstNode == Passed /\ op.kind = "resolve" /\ op.v.k = "dict" /\ op.n # None

\* C5: a pass of a dict whose children are a list of length N, against an
\* existing node of the dict's type with M > N children, that ends without
\* error leaves the node with exactly N children (no real node being named
\* twice in the list).
SurplusTruncated ==
    (/\ DictAgainstNode
     /\ op.v.ch.ck = "list"
     /\ Len(pre.kids[op.n]) > Len(op.v.ch.items)
     /\ NoNodeTwice(op.v)
     /\ res.err = ""
     /\ res.node = op.n)
    => Len(dom.kids[op.n]) = Len(op.v.ch.items)

\* C6: a pass of a dict whose children are None leaves the child list of the
\* existing node, and the tags in it, as they were; a pass of a dict of the
\* node's type whose children are the empty list leaves the node no child.
NoneKeepsChildren ==
    /\ (DictAgainstNode /\ op.v.ch.ck = "none")
       => /\ dom.kids[op.n] = pre.kids[op.n]
          /\ \A i \in 1..Len(pre.kids[op.n]) :
                dom.tag[pre.kids[op.n][i]] = pre.tag[pre.kids[op.n][i]]
    /\ (DictAgainstNode /\ op.v.ch = ChList(<<>>) /\ res.node = op.n)
       => dom.kids[op.n] = <<>>

NoneKeptTwoChildren ==
    /\ DictAgainstNode
    /\ op.v.ch.ck = "none"
    /\ op.v.props # <<>>
    /\ res.node = op.n
    /\ Len(pre.kids[op.n]) >= 2
    /\ dom.kids[op.n] = pre.kids[op.n]

\* The pass was __render_resolve of a string against an existing node.
StrAgainstNode == Passed /\ op.kind = "resolve" /\ op.v.k = "str" /\ op.n # None

\* C7 (as amended): a pass of a string against an existing node sets the
\* inner content of that node, and no attribute of it, when the node is a
\* span; against any other node it leaves the node as it was and returns a
\* new span with that content. No attribute of any existing node changes.
StrSetsContentOfSpan ==
    StrAgainstNode
    => /\ res.err = ""
       /\ dom.html[res.node] = op.v.s
       /\ dom.tag[res.node] = "SPAN"
       /\ \A n \in Created(pre) : dom.attrs[n] = pre.attrs[n] /\ dom.tag[n] = pre.tag[n]
       /\ IF Lower(pre.tag[op.n]) = "span"
          THEN res.node = op.n
          ELSE /\ res.node \notin Created(pre)
               /\ dom.html[op.n] = pre.html[op.n]
               /\ dom.kids[op.n] = pre.kids[op.n]

StrSetContentOfSpan ==
    /\ StrAgainstNode
    /\ pre.tag[op.n] = "SPAN"
    /\ op.n \in Range(pre.kids[Anchor])
    /\ res.node = op.n
    /\ pre.html[op.n] # op.v.s
    /\ dom.html[op.n] = op.v.s

\* C7 (as stated): a pass of a string against an existing node, whatever
\* its tag, sets the inner content of that node and no attribute of it.
StrSetsContentOfAnyNode ==
    StrAgainstNode
    => /\ dom.html[op.n] = op.v.s
       /\ dom.attrs[op.n] = pre.attrs[op.n]

\* C8: the same pass a second time, against what the first pass left,
\* changes nothing: it ends without error, returns the same node, and
\* leaves every node its tag, attributes, content and child list (no real
\* node being named twice in the virtual tree).
SecondPassChangesNothing ==
    (phase = "twice" /\ NoNodeTwice(op.v))
    => /\ res.err = ""
       /\ res.node = op.n
       /\ dom = pre

\* C9: the render reaction of a widget leaves the outer nodes of the child
\* widgets that its render output names their attributes, content and
\* child lists (no real node being named twice in the output).
ChildWidgetNodesUntouched ==
    (Passed /\ op.kind \in {"render", "default"} /\ NoNodeTwice(op.v))
    => \A n \in WidgetNodes \cap Range(Listed(op.v)) :
          /\ dom.tag[n] = pre.tag[n]
          /\ dom.attrs[n] = pre.attrs[n]
          /\ dom.kids[n] = pre.kids[n]
          /\ dom.html[n] = pre.html[n]

\* The render reaction ran with a dict of another type than the outer node.
RootTypeDiffers ==
    /\ Passed
    /\ op.kind = "render"
    /\ op.v.k = "dict"
    /\ op.v.type # NotStr
    /\ Lower(op.v.type) # Lower(pre.tag[Anchor])

\* C10: when _render_dom returns a dict whose type differs, whatever the
\* case of the letters, from the tag of the outer node, the render reaction
\* raises ValueError and leaves every node as it was.
RootTypeMismatchRaises ==
    RootTypeDiffers => res.err = "ValueError" /\ dom = pre

RootTypeMismatchRaised ==
    /\ RootTypeDiffers
    /\ op.v.ch.ck = "list"
    /\ Len(op.v.ch.items) >= 1
    /\ Len(pre.kids[Anchor]) >= 2
    /\ res.err = "ValueError"

\* -------------------------------------------- claims on the render reaction
\* The render reaction ran, with the value of _render_dom as op.v.
Rendered == Passed /\ op.kind \in {"render", "default"}

\* C11: the node that the pass of the render reaction returns is the outer
\* node, whose tag stays what it was: "assert node is self.outernode" never
\* fails, on the first run of the reaction or on a later one.
OuterNodeKept ==
    Rendered
    => /\ res.err # "AssertionError"
       /\ res.err = "" => res.node = Anchor
       /\ dom.tag[Anchor] = pre.tag[Anchor]

OuterNodeKeptTwice ==
    /\ phase = "twice"
    /\ op.kind = "render"
    /\ op.v.k = "list"
    /\ Len(op.v.items) >= 2
    /\ pre.kids[Anchor] # <<>>
    /\ res.err = ""
    /\ res.node = Anchor

\* ------------------------------------------ claims on the node resolution
\* __render_resolve of a virtual node (a dict, or a string, which stands
\* for a span) against op.n returned.
VirtualResolved ==
    Passed /\ op.kind = "resolve" /\ op.v.k \in {"dict", "str"} /\ res.err = ""

TypeOf(v) == IF v.k = "str" THEN "span" ELSE v.type

\* A node was given and its tag is the type of the virtual node.
TagMatched == op.n # None /\ Lower(pre.tag[op.n]) = Lower(TypeOf(op.v))

\* The children of node n before the pass that the virtual node does not name.
Unnamed(n) == SelectSeq(pre.kids[n], LAMBDA c : c \notin Range(Listed(op.v)))

\* C12 (as amended): the pass of a virtual node returns the node given
\* exactly when one is given and its tag is the virtual node's type,
\* whatever the case of the letters; otherwise it returns a new node of that
\* type and leaves the node given its tag, attributes and content, and its
\* children but for those that the virtual node names, which move to their
\* new place. The pass of a real node returns that node and changes nothing.
ReusedIffTagMatches ==
    /\ VirtualResolved
       => IF TagMatched THEN res.node = op.n
          ELSE /\ res.node \notin Created(pre)
               /\ dom.tag[res.node] = Upper(TypeOf(op.v))
               /\ op.n # None
                  => /\ dom.tag[op.n] = pre.tag[op.n]
                     /\ dom.attrs[op.n] = pre.attrs[op.n]
                     /\ dom.html[op.n] = pre.html[op.n]
                     /\ dom.kids[op.n] = Unnamed(op.n)
    /\ (Passed /\ op.kind = "resolve" /\ op.v.k = "real")
       => res.err = "" /\ res.node = op.v.n /\ dom = pre

NewNodeTookNamedChild ==
    /\ VirtualResolved
    /\ op.n = Anchor
    /\ ~TagMatched
    /\ res.node \notin Created(pre)
    /\ Len(pre.kids[Anchor]) = 3
    /\ Len(dom.kids[Anchor]) = 2

\* C12 (as stated): the same, the node given being left as it was,
\* children included, when a new node is returned.
ReusedElseGivenNodeUnmodified ==
    VirtualResolved
    => IF TagMatched THEN res.node = op.n
       ELSE /\ res.node \notin Created(pre)
            /\ dom.tag[res.node] = Upper(TypeOf(op.v))
            /\ op.n # None
               => /\ dom.tag[op.n] = pre.tag[op.n]
                  /\ dom.attrs[op.n] = pre.attrs[op.n]
                  /\ dom.html[op.n] = pre.html[op.n]
                  /\ dom.kids[op.n] = pre.kids[op.n]

\* ------------------------------------------- claims on the default render
\* The children of the outer node before the pass that are no widgets.
PlainBefore ==
    SelectSeq(pre.kids[Anchor],
              LAMBDA n : ~HasClass(pre.attrs[n][<<"className">>], "flx-Widget"))

\* C13: the render reaction with the default _render_dom ends without
\* error and leaves the outer node, as children, those of its children
\* that were no widgets, in their order, and then the outer nodes of the
\* widget's children, in the order of the children property; the outer
\* node of a widget that is no child any more is not among them.
DefaultRenderOrder ==
    (Passed /\ op.kind = "default")
    => /\ res.err = ""
       /\ dom.kids[Anchor] = PlainBefore \o op.wk
       /\ \A n \in WidgetNodes \ Range(op.wk) : n \notin Range(dom.kids[Anchor])

DefaultRenderDroppedWidget ==
    /\ phase = "once"
    /\ op.kind = "default"
    /\ pre.kids[Anchor] = <<2, 4, 3>>
    /\ op.wk = <<3>>
    /\ dom.kids[Anchor] = <<4, 3>>

\* ---------------------------------------------------- claims on the mouse
\* The last step was a move that followed a press-down on the widget made
\* with capture_mouse = mode; the pointer was outside the widget or not.
PressThenMove(mode, inside) ==
    /\ mlast.ev = "move"
    /\ mlast.inside = inside
    /\ mlast.prev = "down"
    /\ mode_since = mode

\* C14 (as amended): with capture_mouse = 1 a press-down on the widget
\* followed by a move outside the widget, which the listener on the
\* document gets, emits one mouse_move event; with capture_mouse = 0 the
\* same move emits none.
MoveOutsideAfterPressEmits ==
    /\ PressThenMove(1, FALSE) => emitted = <<"mouse_move">>
    /\ PressThenMove(0, FALSE) => emitted = <<>>

MoveOutsideAfterPressEmitted ==
    /\ PressThenMove(1, FALSE)
    /\ capture_mouse = 1
    /\ capture_flag = 2
    /\ doc_listeners
    /\ button
    /\ emitted = <<"mouse_move">>

\* C14 (as stated): with capture_mouse = 1 a press-down on the widget
\* followed by a move outside the widget emits no mouse_move event.
MoveOutsideAfterPressSilent ==
    PressThenMove(1, FALSE) => "mouse_move" \notin Range(emitted)

ReleasedWhileCaptured == mlast.ev = "up" /\ mlast.flag = 2

\* C16 (as amended): a release while the capture flag is 2 emits exactly
\* one mouse_up event and removes the listeners from the document; it
\* leaves the flag at 0 when the pointer is over the widget and at -1 when
\* it is outside, and from -1 the next move or release over the widget sets
\* the flag to 0 and emits nothing.
ReleaseEndsCapture ==
    /\ ReleasedWhileCaptured
       => /\ emitted = <<"mouse_up">>
          /\ ~doc_listeners
          /\ capture_flag = IF mlast.inside THEN 0 ELSE -1
    /\ (mlast.ev \in {"move", "up"} /\ mlast.inside /\ mlast.flag = -1)
       => capture_flag = 0 /\ emitted = <<>>

ReleasedOutsideWhileCaptured ==
    /\ ReleasedWhileCaptured
    /\ ~mlast.inside
    /\ emitted = <<"mouse_up">>
    /\ ~doc_listeners
    /\ capture_flag = -1

\* C16 (as stated): a release while the capture flag is 2 emits one
\* mouse_up event, removes the listeners from the document and leaves the
\* flag at 0, the pointer being over the widget or outside it.
ReleaseReturnsToIdle ==
    ReleasedWhileCaptured
    => emitted = <<"mouse_up">> /\ ~doc_listeners /\ capture_flag = 0

\* C17: a losecapture event while the capture flag is 2 removes the
\* listeners from the document, sets the flag to -1 and emits nothing; a
\* move over the widget while the flag is -1 sets it to 0 and emits
\* nothing.
LoseCaptureEndsSilently ==
    /\ (mlast.ev = "losecapture" /\ mlast.flag = 2)
       => capture_flag = -1 /\ ~doc_listeners /\ emitted = <<>>
    /\ (mlast.ev = "move" /\ mlast.inside /\ mlast.flag = -1)
       => capture_flag = 0 /\ emitted = <<>>

MovedInsideAfterLoseCapture ==
    /\ mlast.ev = "move"
    /\ mlast.inside
    /\ mlast.prev = "losecapture"
    /\ mlast.flag = -1
    /\ mode_since = 2
    /\ capture_flag = 0
    /\ emitted = <<>>

\* The last step was a move over the widget while the capture flag was 0.
MovedInsideWhileIdle == mlast.ev = "move" /\ mlast.inside /\ mlast.flag = 0

\* C18 (as amended): a move over the widget while the capture flag is 0
\* emits one mouse_move event when capture_mouse is greater than 1, and
\* nothing otherwise; the flag stays 0.
HoverMoveEmitsAboveOne ==
    MovedInsideWhileIdle
    => /\ emitted = IF capture_mouse > 1 THEN <<"mouse_move">> ELSE <<>>
       /\ capture_flag = 0

HoverMoveEmittedAtThree ==
    /\ MovedInsideWhileIdle
    /\ capture_mouse = 3
    /\ ~button
    /\ emitted = <<"mouse_move">>

\* C18 (as stated): a move over the widget while the capture flag is 0
\* emits a mouse_move event if and only if capture_mouse is 2.
HoverMoveEmitsOnlyAtTwo ==
    MovedInsideWhileIdle => ("mouse_move" \in Range(emitted) <=> capture_mouse = 2)

\* C19: with capture_mouse = 0 at the last press-down on the widget and
\* since, a move emits a mouse_move event only while a button is held down.
MoveOnlyWhilePressed ==
    (mlast.ev = "move" /\ mode_since = 0 /\ "mouse_move" \in Range(emitted))
    => button

\* C20: a disposed widget has no retry of its mount pending and no
\* listener on the document, and emits no mouse event.
DisposedHasNoCallbacks ==
    \A w \in Widgets :
        st[w] = "disposed"
        => /\ timers[w] = 0
           /\ w = MouseWidget => (~doc_listeners /\ emitted = <<>>)

\* C21: set_parent(newParent, pos) with a pos that is no valid number makes
\* the widget the last element of newParent.children, and no children list
\* ever holds a None placeholder.
NaNPosAppendsWidget ==
    /\ \A p \in Widgets : None \notin Range(children[p])
    /\ (sp.pos.kind = "nan" /\ sp.arg \in Widgets /\ sp.err = "") =>
          /\ children[sp.arg] # <<>>
          /\ children[sp.arg][Len(children[sp.arg])] = sp.w

\* The index that the widget is to get among the n other children.
AskedIndex(n, pos) ==
    IF pos.kind = "none" THEN n
    ELSE IF pos.val >= 0 THEN (IF pos.val < n THEN pos.val ELSE n)
    ELSE (IF n + 1 + pos.val > 0 THEN n + 1 + pos.val ELSE 0)

\* This step is the call on record in sp', a call with a widget as the
\* new parent and with no pos or a number as pos.
PlacingCall ==
    /\ sp'.arg \in Widgets
    /\ sp'.pos.kind \in {"none", "int"}
    /\ sp'.err = ""

\* The step has put the widget at the index asked for among the other
\* children of the new parent, has taken it from the old parent, and has
\* kept the order of all other children.
PlacedAtAskedIndex ==
    LET w == sp'.w
        P == sp'.arg
        old == sp'.old
        others == RemoveAll(children[P], w)
        n == Len(others)
        k == AskedIndex(n, sp'.pos)
    IN  /\ parent'[w] = P
        /\ children'[P] = SubSeq(others, 1, k) \o <<w>> \o SubSeq(others, k + 1, n)
        /\ \A q \in Widgets \ {P} :
              children'[q] = IF q = old THEN RemoveAll(children[q], w) ELSE children[q]

\* C22: set_parent(P, pos) with P a widget puts the widget at the end of
\* P.children when pos is None, at index min(pos, n) when pos >= 0 and at
\* index max(0, n + 1 + pos) when pos < 0, n being the number of P's other
\* children, and keeps the order of all other children of the old and the
\* new parent; when P is already the parent it does so for every pos that
\* is a number.
PlacedAsAsked ==
    [][(PlacingCall /\ ~EarlyExit(sp'.old, sp'.arg, sp'.pos))
          => PlacedAtAskedIndex]_vars

\* C22, witness: a move inside the same parent to a negative pos that is
\* clamped to the front.
MovedToFrontInSameParent ==
    /\ sp.w = 3
    /\ sp.old = 1
    /\ sp.arg = 1
    /\ sp.pos = PosInt(0 - MaxPos)
    /\ sp.err = ""
    /\ children[1] = <<3, 2>>
    /\ parent[3] = 1
    /\ parent[2] = 1

\* C22 as stated: the same for every call, the call with pos None on the
\* current parent included, in the states in which parent and children
\* agree.
PlacedAsAskedAlsoWithoutPos ==
    [][(PlacingCall /\ ParentChildrenConsistent) => PlacedAtAskedIndex]_vars

\* C23: set_parent with an argument that is neither a widget nor None
\* raises, and changes neither the parent of the widget nor the children of
\* any widget.
NonWidgetParentRejected ==
    [][sp'.arg = NotAWidget =>
          /\ sp'.err = "ValueError"
          /\ parent' = parent
          /\ children' = children]_vars

\* C23, witness: the call was made on a widget that has a parent and
\* siblings, and raised.
NonWidgetParentRaised ==
    /\ sp.arg = NotAWidget
    /\ sp.err = "ValueError"
    /\ sp.old \in Widgets \ {sp.w}
    /\ parent[sp.w] = sp.old
    /\ Len(children[parent[sp.w]]) = 2

\* The widgets reached from w by following the parent links, at most k of
\* them.
RECURSIVE AncestorsWithin(_, _)
AncestorsWithin(w, k) ==
    IF k = 0 \/ parent[w] \notin Widgets
    THEN {}
    ELSE {parent[w]} \cup AncestorsWithin(parent[w], k - 1)

\* C30: the hierarchy is a forest: no widget is its own ancestor, so the
\* parent links of every widget end at a widget whose parent is None.
NoWidgetIsOwnAncestor ==
    \A w \in Widgets : w \notin AncestorsWithin(w, NW)

\* C28: the listeners on the document are installed exactly while the
\* capture flag is 2, in every state that press-downs, moves and releases
\* inside and outside, lose-capture events and changes of capture_mouse
\* lead to; and a press-down with capture_mouse = 0 sets the flag to 1.
ListenersIffCaptured ==
    /\ doc_listeners <=> capture_flag = 2
    /\ (mlast.ev = "down" /\ mode_since = 0) => capture_flag = 1

\* C29: one release emits at most one mouse_up event, whatever the capture
\* flag and capture_mouse are, also when the release handler on the
\* document and the one on the node both run.
ReleaseEmitsAtMostOnce ==
    mlast.ev = "up" => Count(emitted, "mouse_up") <= 1

\* C29, witness: a release over the widget while it has the capture: the
\* handler on the document has emitted, the handler on the node has not.
ReleasedInsideWhileCaptured ==
    /\ mlast.ev = "up"
    /\ mlast.inside
    /\ mlast.flag = 2
    /\ emitted = <<"mouse_up">>
    /\ capture_flag = 0
    /\ ~doc_listeners

\* The mount reaction of w has found no parent and no element with the id
\* that the container names.
TargetAbsent(w) == parent[w] = None /\ container[w] \in OtherIds \ elems

\* A retry of w is pending and the element that its container names has
\* appeared; its outer node is not in that element.
RetryPendingTargetPresent(w, id) ==
    /\ parent[w] = None
    /\ container[w] = id
    /\ id \in elems
    /\ timers[w] > 0
    /\ attached[w] # id

\* C26: the mount reaction of a parentless widget whose container names an
\* absent element sets a timeout for itself, and so does every retry while
\* the element stays absent; once the element is there, the outer node is
\* eventually appended to it, unless the widget gets a parent or another
\* container first.
MountRetriedUntilAppended ==
    /\ [][\A w \in MountWidgets :
             /\ (w \in ctPending /\ w \notin ctPending' /\ TargetAbsent(w))
                   => timers'[w] = timers[w] + 1
             /\ (timers[w] > 0 /\ TargetAbsent(w) /\ TargetAbsent(w)')
                   => timers'[w] >= timers[w]]_vars
    /\ \A w \in MountWidgets, id \in OtherIds :
          RetryPendingTargetPresent(w, id)
             ~> (attached[w] = id \/ parent[w] # None \/ container[w] # id)

\* C26, witness: the element has appeared while the retry was pending.
RetryPendingWhenTargetAppeared ==
    \E w \in MountWidgets, id \in OtherIds :
        /\ RetryPendingTargetPresent(w, id)
        /\ attached[w] = ""
        /\ w \notin ctPending

\* The size query has returned.
SizeQueried == given.fn = "size" /\ returned # Pending

\* C24: the size query never gives a minimum above the maximum: an
\* inverted pair, of the widths or of the heights, comes back as its
\* average twice, every other pair as parsed.
SizeMinNeverAboveMax ==
    SizeQueried =>
        \A k \in {1, 3} :
            LET lo == ParseSize(given.style[k], k - 1)
                hi == ParseSize(given.style[k + 1], k)
                m == returned.mima
            IN  /\ m[k] <= m[k + 1]
                /\ lo > hi => (m[k] = m[k + 1] /\ 2 * m[k] = lo + hi)
                /\ lo <= hi => (m[k] = lo /\ m[k + 1] = hi)

\* C24, witness: an inverted width pair next to a height pair in order.
InvertedWidthAveraged ==
    /\ SizeQueried
    /\ given.style = <<"40px", "10px", "0", "none">>
    /\ returned.mima = <<25, 25, 0, NoMaximum>>

\* mouse_wheel has returned a record.
WheelBuilt == given.fn = "wheel" /\ returned # Pending /\ returned.ev.err = ""

\* The factors of the claim, by deltaMode.
FactorAsked(mode) == CASE mode = 0 -> 1 [] mode = 1 -> 16 [] mode = 2 -> 600

\* C25: a wheel record of a raw event with deltaMode 0, 1 or 2 has
\* hscroll = deltaX * m and vscroll = deltaY * m, m being 1, 16 and 600,
\* and has button 0.
WheelScaledByMode ==
    (WheelBuilt /\ given.e.deltaMode \in 0..2) =>
        /\ returned.ev.button = 0
        /\ returned.hscroll = given.e.deltaX * FactorAsked(given.e.deltaMode)
        /\ given.e.deltaY # Undefined =>
              returned.vscroll = given.e.deltaY * FactorAsked(given.e.deltaMode)

\* C25, witness: deltaMode 1 and deltaY 2 give vscroll 32, with a raw
\* button that is not 0.
WheelLinesScrolled ==
    /\ WheelBuilt
    /\ given.e.deltaMode = 1
    /\ given.e.deltaY = 2
    /\ given.e.button = 2
    /\ returned.vscroll = 32
    /\ returned.hscroll = 48
    /\ returned.ev.button = 0

\* C27: building a mouse, wheel or key record from a raw event with
\* fields missing or out of range never raises, and the record has a
\* button among 0..5 and scroll amounts that are numbers.
MalformedEventGivesDefaults ==
    /\ (given.fn = "mouse" /\ returned # Pending) =>
          /\ returned.err = ""
          /\ returned.button \in 0..5
    /\ (given.fn = "wheel" /\ returned # Pending) =>
          /\ returned.ev.err = ""
          /\ returned.ev.button \in 0..5
          /\ NaN \notin {returned.hscroll, returned.vscroll}
    /\ (given.fn = "key" /\ returned # Pending) => returned.err = ""

\* C31: set_parent with the current parent and pos None is a no-op: the
\* parent property and the children of every widget stay as they are, and
\* no mutation is issued.
SameParentWithoutPosIsNoOp ==
    [][(sp'.arg = sp'.old /\ sp'.pos.kind = "none") =>
          /\ parent' = parent
          /\ children' = children
          /\ sp'.muts = <<>>
          /\ sp'.err = ""]_vars

\* C31, witness: the call was made on the first of two children, which an
\* append would have moved.
SameParentCallOnFirstChild ==
    /\ sp.w = 2
    /\ sp.old = 1
    /\ sp.arg = 1
    /\ sp.pos.kind = "none"
    /\ sp.muts = <<>>
    /\ children[1] = <<2, 3>>
    /\ parent[2] = 1
====
